---------------------------- MODULE Spec2Model ----------------------------
(***************************************************************************)
(* Model of the data-access layer of the PhD Application Planner           *)
(* (src/app.py): worksheets of a Google spreadsheet used as tables, the    *)
(* helpers ensure_worksheet / read_df / new_id / append_row /              *)
(* update_row_by_id / delete_row_by_id, and the form handlers of the       *)
(* Professors and Communication pages that call them.                      *)
(*                                                                         *)
(* A worksheet is the sequence of its non-blank sheet rows, row 1 being    *)
(* the header; a sheet row is the sequence of its cells; a cell is the     *)
(* text the sheet displays.  Values on the Python side are typed: an int   *)
(* or a str, written [int |-> TRUE/FALSE, text |-> its text].              *)
(*                                                                         *)
(* Of the twelve Professors columns the model keeps ID, Professor Name,    *)
(* Contact Status, Response Date and Notes; the remaining ones are free    *)
(* text handled exactly as Notes.  Of the eight Communication columns it   *)
(* keeps ID, Date, Professor and Message Type, of the ten Scholarships      *)
(* columns ID, Deadline and Status.                                        *)
(***************************************************************************)
EXTENDS Integers, Sequences, FiniteSets, TLC

VARIABLES sheets,   \* title -> worksheet (sequence of sheet rows)
          before,   \* SpecStore: the worksheets as the store call found them
          last,     \* the last operation: for a store call its name, inputs and
                    \* return value; for a page handler whether it raised
          issued,   \* title -> ID -> how often the ID was handed to a new row
                    \* (counted no further than 2)
          view,     \* what the last rendering of the Scholarships table or of
                    \* the dashboard showed, and the inputs it was rendered with
          sess      \* session -> the script run in progress there: the store
                    \* call it is in, its local variables and its next step

vars == <<sheets, before, last, issued, view, sess>>

-----------------------------------------------------------------------------
(* Bounds of the model *)

\* most data rows a worksheet may hold before an append is no longer tried
MaxRows == 2
\* largest ID an append may hand out
MaxId == 3
\* most entries the Communication worksheet may hold before logging stops
MaxLog == 1

-----------------------------------------------------------------------------
(* Schema *)

Professors == "Professors"
Communication == "Communication"
Scholarships == "Scholarships"
Titles == {Professors, Communication, Scholarships}

SCHEMA ==
  [Professors |-> <<"ID", "Professor Name", "Contact Status", "Response Date", "Notes">>,
   Communication |-> <<"ID", "Date", "Professor", "Message Type">>,
   Scholarships |-> <<"ID", "Deadline", "Status">>]

ColsOf == [title \in Titles |-> {SCHEMA[title][i] : i \in 1..Len(SCHEMA[title])}]

Cols(title) == ColsOf[title]

ColIdxOf ==
  [title \in Titles |->
     [col \in Cols(title) |-> CHOOSE i \in 1..Len(SCHEMA[title]) : SCHEMA[title][i] = col]]

ColIdx(title, col) == ColIdxOf[title][col]

-----------------------------------------------------------------------------
(* Python values and their conversion to and from cell text *)

PyStr(s) == [int |-> FALSE, text |-> s]

DigitText == <<"1", "2", "3", "4", "5", "6", "7", "8", "9">>

Numeral(n) == IF n = 0 THEN "0" ELSE DigitText[n]

PyInt(n) == [int |-> TRUE, text |-> Numeral(n)]

\* texts that int() accepts: the decimal numerals, and a numeral with leading zeros
NumericTexts == {Numeral(n) : n \in 0..Len(DigitText)} \cup {"007"}

IsNumericText(s) == s \in NumericTexts

IntOfText ==
  [s \in NumericTexts |->
     IF s = "007" THEN 7 ELSE CHOOSE n \in 0..Len(DigitText) : Numeral(n) = s]

ParseInt(s) == IntOfText[s]

\* get_all_records numericises every cell: text that parses as a number comes
\* back as that number, anything else (the blank cell included) as a str
numericise(cell) == IF IsNumericText(cell) THEN PyInt(ParseInt(cell)) ELSE PyStr(cell)

\* a value written with value_input_option USER_ENTERED is parsed by the
\* sheet as if typed: numeric text becomes a number, shown canonically
UserEntered(v) ==
  IF v.int THEN v.text
  ELSE IF IsNumericText(v.text) THEN Numeral(ParseInt(v.text)) ELSE v.text

\* pd.to_numeric(errors="coerce"): a number, or NaN (IsNum false)
IsNum(v) == v.int \/ IsNumericText(v.text)

NumOf(v) == ParseInt(v.text)

\* astype(str)
AsStr(v) == PyStr(v.text)

\* dict.get(col, "")
Get(d, col) == IF col \in DOMAIN d THEN d[col] ELSE PyStr("")

Max(S) == CHOOSE x \in S : \A y \in S : y <= x

Min(S) == CHOOSE x \in S : \A y \in S : x <= y

-----------------------------------------------------------------------------
(* Worksheet helpers *)

\* ws.delete_row(1) / ws.delete_rows(n, n): the rows below move up
DeleteSheetRow(ws, n) ==
  [i \in 1..(Len(ws) - 1) |-> IF i < n THEN ws[i] ELSE ws[i + 1]]

\* ws.row_values(1): the first row, [] when the sheet has none
RowValues1(ws) == IF Len(ws) = 0 THEN <<>> ELSE ws[1]

\* faulty variant: the header is inserted without deleting the old first row
ensure_worksheet_insert_only(ws, columns) ==
  IF RowValues1(ws) # columns THEN <<columns>> \o ws ELSE ws

ensure_worksheet(ws, columns) ==
  IF RowValues1(ws) # columns
    THEN <<columns>> \o (IF Len(ws) = 0 THEN <<>> ELSE DeleteSheetRow(ws, 1))
    ELSE ws

\* ws.get_all_records() into a DataFrame with the schema's columns
Records(ws, title) ==
  [i \in 1..(Len(ws) - 1) |->
     [col \in Cols(title) |-> numericise(ws[i + 1][ColIdx(title, col)])]]

\* the rows read_df returns; the call also leaves the header repaired
read_df(ws, title) == Records(ensure_worksheet(ws, SCHEMA[title]), title)

\* the DataFrame rows (1-based) whose ID, coerced to a number, equals row_id
MatchingRows(df, row_id) ==
  {i \in 1..Len(df) : IsNum(df[i]["ID"]) /\ NumOf(df[i]["ID"]) = row_id}

\* faulty variant: the last matching row instead of the first
LastMatch(df, row_id) == Max(MatchingRows(df, row_id))

\* df.index[df["ID"] == row_id][0]: the first of them
FirstMatch(df, row_id) == Min(MatchingRows(df, row_id))

\* faulty variant: an ID from the number of rows instead of the largest ID
new_id_by_count(df) == Len(df) + 1

\* faulty variant: the largest ID itself, the increment forgotten
new_id_no_increment(df) ==
  IF Len(df) = 0 THEN 1
  ELSE Max({IF IsNum(df[i]["ID"]) THEN NumOf(df[i]["ID"]) ELSE 0 : i \in 1..Len(df)})

new_id(df) ==
  IF Len(df) = 0 THEN 1
  ELSE Max({IF IsNum(df[i]["ID"]) THEN NumOf(df[i]["ID"]) ELSE 0 : i \in 1..Len(df)}) + 1

\* the cells append_row / update_row_by_id write for a dict, in schema order
RowCells(title, row_dict) ==
  [i \in 1..Len(SCHEMA[title]) |-> UserEntered(Get(row_dict, SCHEMA[title][i]))]

append_row(ws, title, row_dict) ==
  Append(ensure_worksheet(ws, SCHEMA[title]), RowCells(title, row_dict))

\* faulty variant: an ID that is not found is written as a new row
update_row_by_id_upsert(ws, title, row_id, updated_dict) ==
  LET w == ensure_worksheet(ws, SCHEMA[title])
      df == Records(w, title)
  IN IF MatchingRows(df, row_id) = {}
       THEN [ws |-> Append(w, RowCells(title, updated_dict)), ret |-> TRUE]
       ELSE [ws |-> [w EXCEPT ![FirstMatch(df, row_id) + 1] = RowCells(title, updated_dict)],
             ret |-> TRUE]

\* returns the worksheet afterwards and the function's return value
update_row_by_id(ws, title, row_id, updated_dict) ==
  LET w == ensure_worksheet(ws, SCHEMA[title])
      df == Records(w, title)
  IN IF Len(df) = 0 THEN [ws |-> w, ret |-> FALSE]
     ELSE IF MatchingRows(df, row_id) = {} THEN [ws |-> w, ret |-> FALSE]
     ELSE LET row_number == FirstMatch(df, row_id) + 1
          IN [ws |-> [w EXCEPT ![row_number] = RowCells(title, updated_dict)],
              ret |-> TRUE]

delete_row_by_id(ws, title, row_id) ==
  LET w == ensure_worksheet(ws, SCHEMA[title])
      df == Records(w, title)
  IN IF Len(df) = 0 THEN [ws |-> w, ret |-> FALSE]
     ELSE IF MatchingRows(df, row_id) = {} THEN [ws |-> w, ret |-> FALSE]
     ELSE [ws |-> DeleteSheetRow(w, FirstMatch(df, row_id) + 1), ret |-> TRUE]

\* rows 2.. of a worksheet: the table's rows, in store order
DataRows(ws) == IF Len(ws) = 0 THEN <<>> ELSE Tail(ws)

-----------------------------------------------------------------------------
(* The store's operations called directly, on any worksheet (SpecStore) *)

NoDict == [c \in {} |-> PyStr("")]

Idle == [op |-> "none", id |-> 0, row |-> NoDict, ret |-> FALSE, raised |-> FALSE]

NoneIssued == [t \in Titles |-> [i \in 1..MaxId |-> 0]]

\* nothing rendered yet
NoView == [op |-> "none", today |-> "", f_status |-> "All", only_soon |-> FALSE,
           dff |-> <<>>, close_soon |-> 0]

\* the browser sessions of the application
Sessions == {"A", "B"}

\* a session with no script run in progress
NoRun == [pc |-> "idle", op |-> "none", id |-> 0, row |-> NoDict,
          row_number |-> 0, writes |-> 0, ret |-> FALSE]

NoRuns == [s \in Sessions |-> NoRun]

\* first rows a worksheet may be found with: the expected header, a blank
\* row, a header with a renamed column, a header of another width
StoreHeaders ==
  {SCHEMA[Professors], <<>>,
   <<"ID", "Name", "Contact Status", "Response Date", "Notes">>,
   <<"ID", "Professor Name">>}

\* data rows a worksheet may be found with: the ID numeric, blank or not a number
StoreRows ==
  {<<id, "Dr. Smith", "Contacted", "", notes>> :
     id \in {"1", "2", "", "x"}, notes \in {"", "n"}}

RECURSIVE SeqsUpTo(_, _)
SeqsUpTo(S, n) ==
  IF n = 0 THEN {<<>>}
  ELSE LET shorter == SeqsUpTo(S, n - 1)
       IN shorter \cup {Append(q, x) : q \in {r \in shorter : Len(r) = n - 1}, x \in S}

\* the table of the spec's example: rows with IDs 1, 2 and 5
ExampleSheet ==
  <<SCHEMA[Professors],
    <<"1", "Dr. Smith", "Contacted", "", "">>,
    <<"2", "Dr. Smith", "Contacted", "", "">>,
    <<"5", "Dr. Smith", "Contacted", "", "">> >>

StoreSheets ==
  {<<>>, ExampleSheet}
    \cup {<<h>> \o rows : h \in StoreHeaders, rows \in SeqsUpTo(StoreRows, MaxRows)}

\* row dicts handed to append and update: complete ones, one whose Notes is
\* numeric text, and ones that lack fields
StoreDicts ==
  {[c \in Cols(Professors) |->
      CASE c = "ID" -> PyInt(3)
        [] c = "Professor Name" -> PyStr("Dr. Lee")
        [] c = "Contact Status" -> PyStr("Replied")
        [] c = "Response Date" -> PyStr("2025-01-15")
        [] OTHER -> PyStr(notes)] : notes \in {"", "007"}}
    \cup {[c \in {"ID", "Professor Name"} |->
             IF c = "ID" THEN PyInt(1) ELSE PyStr("Dr. Lee")]}
    \cup {[c \in {"Notes"} |-> PyStr("m")]}

InitStore ==
  /\ sheets \in {[t \in Titles |-> IF t = Professors THEN ws ELSE <<>>] : ws \in StoreSheets}
  /\ before = sheets
  /\ last = Idle
  /\ issued = NoneIssued
  /\ view = NoView
  /\ sess = NoRuns

\* one call of a store operation on the worksheet as found
StoreCall(ws, l) ==
  /\ last = Idle
  /\ sheets' = [sheets EXCEPT ![Professors] = ws]
  /\ before' = sheets
  /\ last' = l
  /\ UNCHANGED <<issued, view, sess>>

StoreEnsure ==
  StoreCall(ensure_worksheet(sheets[Professors], SCHEMA[Professors]),
            [Idle EXCEPT !.op = "ensure"])

\* new_id(read_df(title))
StoreNewId ==
  LET w == ensure_worksheet(sheets[Professors], SCHEMA[Professors])
  IN StoreCall(w, [Idle EXCEPT !.op = "new_id", !.id = new_id(Records(w, Professors))])

StoreAppend ==
  \E d \in StoreDicts :
    StoreCall(append_row(sheets[Professors], Professors, d),
              [Idle EXCEPT !.op = "append", !.row = d])

StoreUpdate ==
  \E id \in 1..MaxId, d \in StoreDicts :
    LET r == update_row_by_id(sheets[Professors], Professors, id, d)
    IN StoreCall(r.ws, [Idle EXCEPT !.op = "update", !.id = id, !.row = d, !.ret = r.ret])

StoreDelete ==
  \E id \in 1..MaxId :
    LET r == delete_row_by_id(sheets[Professors], Professors, id)
    IN StoreCall(r.ws, [Idle EXCEPT !.op = "delete", !.id = id, !.ret = r.ret])

NextStore == StoreEnsure \/ StoreNewId \/ StoreAppend \/ StoreUpdate \/ StoreDelete

SpecStore == InitStore /\ [][NextStore]_vars

-----------------------------------------------------------------------------
(* The pages' form handlers, one script run each, from a new spreadsheet (Spec) *)

\* what the user types as a professor's name; the second is numeric text
NameInputs == {"Dr. Smith", "007"}

DateInputs == {"2025-01-15"}

MessageTypes == {"Email (Outgoing)", "Email (Incoming)"}

\* "Incoming" in msg_type
IsIncoming(msg_type) == msg_type = "Email (Incoming)"

Init ==
  /\ sheets = [t \in Titles |-> <<>>]
  /\ before = sheets
  /\ last = Idle
  /\ issued = NoneIssued
  /\ view = NoView
  /\ sess = NoRuns

Issue(title, id) ==
  [issued EXCEPT ![title][id] = IF @ = 0 THEN 1 ELSE 2]

\* the record a page handler leaves in last: whether it raised
Handled(raised) == [Idle EXCEPT !.op = "handler", !.raised = raised]

\* render_professors, "Add Professor" submitted
AddProfessor ==
  \E name \in NameInputs :
    LET w == ensure_worksheet(sheets[Professors], SCHEMA[Professors])
        df == Records(w, Professors)
        row == [c \in Cols(Professors) |->
                  CASE c = "ID" -> PyInt(new_id(df))
                    [] c = "Professor Name" -> PyStr(name)
                    [] c = "Contact Status" -> PyStr("Contacted")
                    [] OTHER -> PyStr("")]
    IN /\ Len(df) < MaxRows
       /\ new_id(df) <= MaxId
       /\ sheets' = [sheets EXCEPT ![Professors] = append_row(w, Professors, row)]
       /\ last' = Handled(FALSE)
       /\ issued' = Issue(Professors, new_id(df))
       /\ UNCHANGED <<before, view, sess>>

\* render_professors, "Save Changes" submitted: the user picks a listed ID and
\* retypes the name; status, response date and notes keep the form's defaults.
\* int(sel_id) raises on an ID that is not a number.
UpdateProfessor ==
  LET w == ensure_worksheet(sheets[Professors], SCHEMA[Professors])
      df == Records(w, Professors)
  IN \E i \in 1..Len(df), name \in NameInputs :
       LET sel_id == df[i]["ID"]
           selected == df[Min({j \in 1..Len(df) : df[j]["ID"] = sel_id})]
           row == [c \in Cols(Professors) |->
                     CASE c = "ID" -> PyInt(NumOf(sel_id))
                       [] c = "Professor Name" -> PyStr(name)
                       [] c = "Contact Status" -> AsStr(selected["Contact Status"])
                       [] c = "Response Date" -> AsStr(selected["Response Date"])
                       [] OTHER -> AsStr(selected["Notes"])]
       IN /\ sheets' = [sheets EXCEPT ![Professors] =
                          IF IsNum(sel_id)
                            THEN update_row_by_id(w, Professors, NumOf(sel_id), row).ws
                            ELSE w]
          /\ last' = Handled(~IsNum(sel_id))
          /\ UNCHANGED <<before, issued, view, sess>>

\* render_professors, "Delete" submitted
DeleteProfessor ==
  LET w == ensure_worksheet(sheets[Professors], SCHEMA[Professors])
      df == Records(w, Professors)
  IN \E i \in 1..Len(df) :
       LET sel_id == df[i]["ID"]
       IN /\ sheets' = [sheets EXCEPT ![Professors] =
                          IF IsNum(sel_id)
                            THEN delete_row_by_id(w, Professors, NumOf(sel_id)).ws
                            ELSE w]
          /\ last' = Handled(~IsNum(sel_id))
          /\ UNCHANGED <<before, issued, view, sess>>

\* the Professor rows (1-based) whose name equals the selected reference
NameMatches(prof_df, professor) ==
  {i \in 1..Len(prof_df) : prof_df[i]["Professor Name"] = PyStr(professor)}

\* faulty variant: the last of them
LastNameMatch(prof_df, professor) == Max(NameMatches(prof_df, professor))

\* p.iloc[0]: the first of them
FirstNameMatch(prof_df, professor) == Min(NameMatches(prof_df, professor))

\* faulty variant: the status is set, the response date is left as it was
AutoReplyStatusOnly(wp, prof_df, date, professor, msg_type) ==
  IF IsIncoming(msg_type) /\ professor # "" /\ NameMatches(prof_df, professor) # {}
    THEN LET p0 == prof_df[FirstNameMatch(prof_df, professor)]
             updated == [p0 EXCEPT !["Contact Status"] = PyStr("Replied")]
             r == update_row_by_id(wp, Professors, NumOf(p0["ID"]), updated)
         IN [ws |-> r.ws, ret |-> r.ret, raised |-> FALSE]
    ELSE [ws |-> wp, ret |-> FALSE, raised |-> FALSE]

\* the auto-update of the Professors worksheet after an entry is logged:
\* the worksheet afterwards, update_row_by_id's result, and whether int() raised
AutoReply(wp, prof_df, date, professor, msg_type) ==
  IF IsIncoming(msg_type) /\ professor # "" /\ NameMatches(prof_df, professor) # {}
    THEN LET p0 == prof_df[FirstNameMatch(prof_df, professor)]
             updated == [p0 EXCEPT !["Contact Status"] = PyStr("Replied"),
                                   !["Response Date"] = PyStr(date)]
         IN IF ~IsNum(p0["ID"])
              THEN [ws |-> wp, ret |-> FALSE, raised |-> TRUE]
              ELSE LET r == update_row_by_id(wp, Professors, NumOf(p0["ID"]), updated)
                   IN [ws |-> r.ws, ret |-> r.ret, raised |-> FALSE]
    ELSE [ws |-> wp, ret |-> FALSE, raised |-> FALSE]

\* render_communication, "Add Log" submitted; the professor is chosen among
\* "" and the names read from the Professors worksheet, as strings
AddCommunication ==
  LET wp == ensure_worksheet(sheets[Professors], SCHEMA[Professors])
      prof_df == Records(wp, Professors)
      wc == ensure_worksheet(sheets[Communication], SCHEMA[Communication])
      df == Records(wc, Communication)
  IN \E date \in DateInputs, msg_type \in MessageTypes,
        professor \in {""} \cup {AsStr(prof_df[i]["Professor Name"]).text : i \in 1..Len(prof_df)} :
       LET row_dict == [c \in Cols(Communication) |->
                          CASE c = "ID" -> PyInt(new_id(df))
                            [] c = "Date" -> PyStr(date)
                            [] c = "Professor" -> PyStr(professor)
                            [] OTHER -> PyStr(msg_type)]
           a == AutoReply(wp, prof_df, date, professor, msg_type)
       IN /\ Len(df) < MaxLog
          /\ new_id(df) <= MaxId
          /\ sheets' = [sheets EXCEPT ![Communication] = append_row(wc, Communication, row_dict),
                                      ![Professors] = a.ws]
          /\ last' = Handled(a.raised)
          /\ issued' = Issue(Communication, new_id(df))
          /\ UNCHANGED <<before, view, sess>>

Next == AddProfessor \/ UpdateProfessor \/ DeleteProfessor \/ AddCommunication

Spec == Init /\ [][Next]_vars

-----------------------------------------------------------------------------
(* Properties of the pages' handlers (checked under Spec) *)

Rows(title) == DataRows(sheets[title])

\* the step appended a row to the table
Appends(title) == Len(DataRows(sheets'[title])) = Len(Rows(title)) + 1

NewRow(title) == sheets'[title][Len(sheets'[title])]

\* C1 as claimed: no ID is ever handed to a second row of the same table,
\* not even after the first one was deleted.
C1_NeverReused == \A t \in Titles : \A id \in 1..MaxId : issued[t][id] <= 1

\* C1 as amended: the ID handed to an appended row is larger than the ID of
\* every row the table holds at that moment (so it differs from all of
\* them); the ID of a deleted row can be handed out again.
C1_FreshAmongCurrentRows ==
  [][\A t \in Titles :
       Appends(t) =>
         /\ IsNumericText(NewRow(t)[1])
         /\ \A i \in 1..Len(Rows(t)) :
              IsNumericText(Rows(t)[i][1])
                => ParseInt(Rows(t)[i][1]) < ParseInt(NewRow(t)[1])]_vars

\* an ID was handed out a second time, and its row is in the table
C1_Witness ==
  \E id \in 1..MaxId :
    /\ issued[Professors][id] = 2
    /\ \E i \in 1..Len(Rows(Professors)) : Rows(Professors)[i][1] = Numeral(id)

\* C2: from an empty table, after any sequence of a single session's appends,
\* updates and deletes, no two rows of a table have the same ID.
C2_UniqueIds ==
  \A t \in Titles :
    \A i, j \in 1..Len(Rows(t)) : i # j => Rows(t)[i][1] # Rows(t)[j][1]

\* two rows of different names in the table, after a deleted row's ID was handed out again
C2_Witness ==
  /\ Len(Rows(Professors)) = 2
  /\ \E id \in 1..MaxId : issued[Professors][id] = 2
  /\ Rows(Professors)[1][2] # Rows(Professors)[2][2]

\* the entry a logging step appends, and what it says
Entry == NewRow(Communication)
EntryDate == Entry[2]
EntryProfessor == Entry[3]
EntryIncoming == Entry[4] = "Email (Incoming)"

\* the Professors rows, as the step finds them, whose name read from the
\* sheet is exactly the referenced string
Named(professor) ==
  {k \in 1..Len(Rows(Professors)) : numericise(Rows(Professors)[k][2]) = PyStr(professor)}

ProfessorsAfter == DataRows(sheets'[Professors])

-----------------------------------------------------------------------------
(* Properties of the store operations (checked under SpecStore) *)

\* the Professors rows before and after the last call, in store order
Old == DataRows(before[Professors])
Tbl == DataRows(sheets[Professors])

\* a sheet row carries the ID id: its ID cell, coerced to a number, is id
HasId(row, id) == IsNumericText(row[1]) /\ ParseInt(row[1]) = id

IdAbsent(rows, id) == \A i \in 1..Len(rows) : ~HasId(rows[i], id)

\* k is the first row of rows that carries id
IsFirstWithId(rows, k, id) ==
  /\ k \in 1..Len(rows)
  /\ HasId(rows[k], id)
  /\ \A j \in 1..(k - 1) : ~HasId(rows[j], id)

\* C5: updateById and deleteById with an id no row carries (also on an empty
\* table) return false and leave every row unchanged, in content and order.
C5_NotFoundLeavesRows ==
  (last.op \in {"update", "delete"} /\ IdAbsent(Old, last.id))
    => (last.ret = FALSE /\ Tbl = Old)

C5_Witness ==
  /\ last.op = "update"
  /\ Len(Old) > 0
  /\ IdAbsent(Old, last.id)
  /\ ~last.ret

\* C6: deleteById on a table holding a row with that ID returns true and
\* removes exactly the first such row; the others keep content and order,
\* also when several rows share the ID.
C6_DeleteFirstMatch ==
  (last.op = "delete" /\ ~IdAbsent(Old, last.id))
    => /\ last.ret = TRUE
       /\ \E k \in 1..Len(Old) :
            /\ IsFirstWithId(Old, k, last.id)
            /\ Len(Tbl) = Len(Old) - 1
            /\ \A i \in 1..Len(Tbl) : Tbl[i] = IF i < k THEN Old[i] ELSE Old[i + 1]

C6_Witness ==
  /\ last.op = "delete"
  /\ last.ret
  /\ \E i, j \in 1..Len(Old) :
       i < j /\ HasId(Old[i], last.id) /\ HasId(Old[j], last.id) /\ Old[i] # Old[j]

\* C7: updateById on a table holding a row with that ID returns true and
\* overwrites every schema column of the first such row with the value given
\* for it (the empty string when none is given); the number and order of
\* rows and every other row are unchanged.
C7_UpdateOverwritesRow ==
  (last.op = "update" /\ ~IdAbsent(Old, last.id))
    => /\ last.ret = TRUE
       /\ Len(Tbl) = Len(Old)
       /\ \E k \in 1..Len(Old) :
            /\ IsFirstWithId(Old, k, last.id)
            /\ \A i \in 1..Len(Old) : i # k => Tbl[i] = Old[i]
            /\ \A col \in Cols(Professors) :
                 read_df(sheets[Professors], Professors)[k][col].text
                   = Get(last.row, col).text

\* C8: nextId is 1 for an empty table, otherwise one more than the largest
\* numeric ID of the rows, a blank or non-numeric ID counting as 0.
C8_NextId ==
  last.op = "new_id"
    => /\ last.id >= 1
       /\ \A i \in 1..Len(Tbl) : IsNumericText(Tbl[i][1]) => last.id > ParseInt(Tbl[i][1])
       /\ \/ last.id = 1
          \/ \E i \in 1..Len(Tbl) : HasId(Tbl[i], last.id - 1)

C8_Witness ==
  /\ last.op = "new_id"
  /\ {Tbl[i][1] : i \in 1..Len(Tbl)} = {"1", "2", "5"}
  /\ last.id = 6

\* C9: after append(name, row), list(name) returns the previous rows in
\* their order followed by one new last row holding, for every schema
\* column, the value given in row, or the empty string when none is given.
C9_AppendRoundTrip ==
  last.op = "append"
    => LET was == read_df(before[Professors], Professors)
           now == read_df(sheets[Professors], Professors)
       IN /\ Len(now) = Len(was) + 1
          /\ \A i \in 1..Len(was) : now[i] = was[i]
          /\ \A col \in Cols(Professors) :
               now[Len(now)][col].text = Get(last.row, col).text

\* C10: ensureTable on a table whose first row is not the expected column
\* list leaves the expected list as row 1 and the rows after it unchanged;
\* when the first row is the expected list it changes nothing.
C10_HeaderRepair ==
  (last.op = "ensure" /\ Len(before[Professors]) > 0)
    => IF before[Professors][1] = SCHEMA[Professors]
         THEN sheets[Professors] = before[Professors]
         ELSE /\ sheets[Professors][1] = SCHEMA[Professors]
              /\ Tbl = Old

C10_Witness ==
  /\ last.op = "ensure"
  /\ Len(Old) > 0
  /\ before[Professors][1] # SCHEMA[Professors]
  /\ before[Professors][1] # <<>>

-----------------------------------------------------------------------------
(* The deadline filter of the Scholarships page and of the dashboard         *)
(* (SpecFilter): the table is found with any deadlines, then rendered.       *)

\* pd.Timedelta(days=30): how far ahead a deadline may lie and still be shown
SoonDays == 30

\* the dates of the model with their day numbers (date.toordinal())
DateOrdinal ==
  "2024-12-01" :> 739221 @@ "2025-01-01" :> 739252 @@ "2025-01-02" :> 739253 @@
  "2025-01-15" :> 739266 @@ "2025-01-31" :> 739282 @@ "2025-02-01" :> 739283 @@
  "2025-03-01" :> 739311

\* NaT, what errors="coerce" yields for a value that is no date
NaT == [nat |-> TRUE, ordinal |-> 0]

\* pd.to_datetime(x, errors="coerce") of a str
to_datetime(v) ==
  IF ~v.int /\ v.text \in DOMAIN DateOrdinal
    THEN [nat |-> FALSE, ordinal |-> DateOrdinal[v.text]]
    ELSE NaT

\* faulty variant: a deadline that has passed is not shown
WithinSoonNotOverdue(dd, today) ==
  /\ ~dd.nat
  /\ dd.ordinal - DateOrdinal[today] <= SoonDays
  /\ dd.ordinal - DateOrdinal[today] >= 0

\* (dd - pd.Timestamp(NOW.date())) <= pd.Timedelta(days=30); a comparison
\* with NaT is False
WithinSoon(dd, today) ==
  /\ ~dd.nat
  /\ dd.ordinal - DateOrdinal[today] <= SoonDays

\* NOW.date() of the script run
TodayInputs == {"2025-01-01", "2025-01-02"}

\* STATUS_SCH, the first two of its five values
STATUS_SCH == {"To Explore", "Applied"}

\* Deadline cells a Scholarships row may be found with: dates before, at and
\* after the limit, the blank cell and text that is no date
DeadlineCells ==
  {"2024-12-01", "2025-01-15", "2025-01-31", "2025-02-01", "2025-03-01", "", "TBA"}

\* a worksheet with the header and one row per (deadline, status), IDs 1, 2, ...
SchSheet(q) ==
  <<SCHEMA[Scholarships]>> \o [i \in 1..Len(q) |-> <<Numeral(i), q[i][1], q[i][2]>>]

\* the table of the spec's example: deadlines 2025-01-15, 2025-03-01, 2024-12-01
ExampleScholarships ==
  SchSheet(<< <<"2025-01-15", "To Explore">>, <<"2025-03-01", "To Explore">>,
              <<"2024-12-01", "To Explore">> >>)

SchSheets ==
  {<<>>, ExampleScholarships}
    \cup {SchSheet(q) : q \in SeqsUpTo(DeadlineCells \X STATUS_SCH, MaxRows)}

InitFilter ==
  /\ sheets \in {[t \in Titles |-> IF t = Scholarships THEN ws ELSE <<>>] : ws \in SchSheets}
  /\ before = sheets
  /\ last = Idle
  /\ issued = NoneIssued
  /\ view = NoView
  /\ sess = NoRuns

\* render_scholarships, "Browse / Filters": the rows left by the status
\* filter and the "within 30 days" checkbox
BrowseScholarships ==
  \E today \in TodayInputs, f_status \in {"All"} \cup STATUS_SCH, only_soon \in BOOLEAN :
    LET w == ensure_worksheet(sheets[Scholarships], SCHEMA[Scholarships])
        df == Records(w, Scholarships)
        by_status == IF f_status # "All"
                       THEN SelectSeq(df, LAMBDA r : r["Status"] = PyStr(f_status))
                       ELSE df
        dff == IF only_soon
                 THEN SelectSeq(by_status,
                                LAMBDA r : WithinSoon(to_datetime(r["Deadline"]), today))
                 ELSE by_status
    IN /\ sheets' = [sheets EXCEPT ![Scholarships] = w]
       /\ view' = [op |-> "browse", today |-> today, f_status |-> f_status,
                   only_soon |-> only_soon, dff |-> dff, close_soon |-> 0]
       /\ UNCHANGED <<before, last, issued, sess>>

\* render_dashboard: the three tables are read, close_soon counts the
\* scholarships whose deadline is close
RenderDashboard ==
  \E today \in TodayInputs :
    LET w == [t \in Titles |-> ensure_worksheet(sheets[t], SCHEMA[t])]
        sch == Records(w[Scholarships], Scholarships)
        close_soon ==
          Cardinality({i \in 1..Len(sch) : WithinSoon(to_datetime(sch[i]["Deadline"]), today)})
    IN /\ sheets' = w
       /\ view' = [NoView EXCEPT !.op = "dashboard", !.today = today,
                                 !.close_soon = close_soon]
       /\ UNCHANGED <<before, last, issued, sess>>

NextFilter == BrowseScholarships \/ RenderDashboard

SpecFilter == InitFilter /\ [][NextFilter]_vars

-----------------------------------------------------------------------------
(* Properties of the deadline filter (checked under SpecFilter) *)

\* the Scholarships rows as read, and those the status filter leaves
SchRows == Records(sheets[Scholarships], Scholarships)

SchByStatus ==
  IF view.f_status = "All" THEN SchRows
  ELSE SelectSeq(SchRows, LAMBDA r : r["Status"].text = view.f_status)

\* the deadline cell reads as a date
ParsesToDate(r) == r["Deadline"].text \in DOMAIN DateOrdinal

\* days from the day of the rendering to the row's deadline
DaysLeft(r) == DateOrdinal[r["Deadline"].text] - DateOrdinal[view.today]

ShownIds == [j \in 1..Len(view.dff) |-> view.dff[j]["ID"].text]

-----------------------------------------------------------------------------
(* The Professors page run by several sessions on one spreadsheet           *)
(* (SpecRace, SpecPartial).  A script run is split where it calls the       *)
(* backend: read_df at the top of the page, the read inside                 *)
(* update_row_by_id / delete_row_by_id, every update_acell, delete_rows,    *)
(* append_row.  Each session submits one form.                              *)

\* the table the sessions start from: three professors added one by one
RaceSheet ==
  <<SCHEMA[Professors],
    <<"1", "Dr. Smith", "Contacted", "", "">>,
    <<"2", "Dr. Jones", "Contacted", "", "">>,
    <<"3", "Dr. Khan", "Contacted", "", "">> >>

\* what a user types over the form's defaults; "007" is numeric text
NameEdits == {"Dr. Lee", "007"}

NoteEdits == {"n"}

InitRace ==
  /\ sheets = [t \in Titles |-> IF t = Professors THEN RaceSheet ELSE <<>>]
  /\ before = sheets
  /\ last = Idle
  /\ issued = NoneIssued
  /\ view = NoView
  /\ sess = NoRuns

\* a sheet row with nothing in it
BlankRow(title) == [i \in 1..Len(SCHEMA[title]) |-> ""]

\* ws.update_acell(rowcol_to_a1(row_number, col_idx), value): the cell is set
\* where it is, in whatever row is there now; below the last row the sheet
\* is blank
update_acell(ws, title, row_number, col_idx, value) ==
  LET grown == [i \in 1..Max({Len(ws), row_number}) |->
                  IF i <= Len(ws) THEN ws[i] ELSE BlankRow(title)]
  IN [grown EXCEPT ![row_number][col_idx] = UserEntered(value)]

\* ws.delete_rows(n, n): below the last row there is nothing to remove
delete_rows(ws, n) == IF n <= Len(ws) THEN DeleteSheetRow(ws, n) ELSE ws

\* faulty variant: the header row is not counted
RowNumberNoHeader(i) == i

\* row_number = idx + 2 (idx counts from 0, i from 1): the header is row 1
RowNumber(i) == i + 1

\* faulty variant: the columns are written from the last to the first
LastColumnFirst(title, k) == Len(SCHEMA[title]) - k + 1

\* enumerate(SCHEMA[title], start=1): the k-th write goes to column k
ColOfWrite(title, k) == k

\* one backend call of session s: the worksheet and the session afterwards
Step(s, ws, run) ==
  /\ sheets' = [sheets EXCEPT ![Professors] = ws]
  /\ sess' = [sess EXCEPT ![s] = run]
  /\ UNCHANGED <<before, last, issued, view>>

\* "Add Professor" submitted: the page has read the table and new_id(df) is
\* in the row; append_row comes next
StartAdd(s) ==
  LET w == ensure_worksheet(sheets[Professors], SCHEMA[Professors])
      df == Records(w, Professors)
      row == [c \in Cols(Professors) |->
                CASE c = "ID" -> PyInt(new_id(df))
                  [] c = "Professor Name" -> PyStr("Dr. Lee")
                  [] c = "Contact Status" -> PyStr("Contacted")
                  [] OTHER -> PyStr("")]
  IN /\ sess[s] = NoRun
     /\ new_id(df) <= MaxId
     /\ Step(s, w, [NoRun EXCEPT !.pc = "append", !.op = "append",
                                 !.id = new_id(df), !.row = row])

\* append_row: the row goes below the last row of the worksheet as it is now
AppendRow(s) ==
  /\ sess[s].pc = "append"
  /\ Step(s, append_row(sheets[Professors], Professors, sess[s].row),
          [sess[s] EXCEPT !.pc = "done"])

\* "Save Changes" submitted: the page has read the table, the user picked a
\* listed ID and typed over the name and the notes of that row or left
\* them; update_row_by_id comes next.  int(sel_id) raises on a non-number.
StartUpdate(s) ==
  LET w == ensure_worksheet(sheets[Professors], SCHEMA[Professors])
      df == Records(w, Professors)
  IN /\ sess[s] = NoRun
     /\ \E i \in 1..Len(df) :
          LET sel_id == df[i]["ID"]
              selected == df[Min({j \in 1..Len(df) : df[j]["ID"] = sel_id})]
          IN \E name \in {AsStr(selected["Professor Name"]).text} \cup NameEdits,
                notes \in {AsStr(selected["Notes"]).text} \cup NoteEdits :
               LET row == [c \in Cols(Professors) |->
                             CASE c = "ID" -> PyInt(NumOf(sel_id))
                               [] c = "Professor Name" -> PyStr(name)
                               [] c = "Contact Status" -> AsStr(selected["Contact Status"])
                               [] c = "Response Date" -> AsStr(selected["Response Date"])
                               [] OTHER -> PyStr(notes)]
               IN IF IsNum(sel_id)
                    THEN Step(s, w, [NoRun EXCEPT !.pc = "locate", !.op = "update",
                                                  !.id = NumOf(sel_id), !.row = row])
                    ELSE Step(s, w, [NoRun EXCEPT !.pc = "failed", !.op = "update"])

\* "Delete" submitted: delete_row_by_id comes next
StartDelete(s) ==
  LET w == ensure_worksheet(sheets[Professors], SCHEMA[Professors])
      df == Records(w, Professors)
  IN /\ sess[s] = NoRun
     /\ \E i \in 1..Len(df) :
          LET sel_id == df[i]["ID"]
          IN IF IsNum(sel_id)
               THEN Step(s, w, [NoRun EXCEPT !.pc = "locate", !.op = "delete",
                                             !.id = NumOf(sel_id)])
               ELSE Step(s, w, [NoRun EXCEPT !.pc = "failed", !.op = "delete"])

\* update_row_by_id / delete_row_by_id up to row_number: get_all_records,
\* False when the ID is not there, else the sheet row of the first match
Locate(s) ==
  LET w == ensure_worksheet(sheets[Professors], SCHEMA[Professors])
      df == Records(w, Professors)
  IN /\ sess[s].pc = "locate"
     /\ IF Len(df) = 0 \/ MatchingRows(df, sess[s].id) = {}
          THEN Step(s, w, [sess[s] EXCEPT !.pc = "done", !.ret = FALSE])
          ELSE Step(s, w, [sess[s] EXCEPT
                             !.pc = IF sess[s].op = "update" THEN "write" ELSE "remove",
                             !.row_number = RowNumber(FirstMatch(df, sess[s].id))])

\* one turn of update_row_by_id's loop; after the last column it returns True
WriteCell(s) ==
  LET k == sess[s].writes + 1
      col_idx == ColOfWrite(Professors, k)
      value == Get(sess[s].row, SCHEMA[Professors][col_idx])
  IN /\ sess[s].pc = "write"
     /\ Step(s, update_acell(sheets[Professors], Professors, sess[s].row_number, col_idx, value),
             [sess[s] EXCEPT !.writes = k,
                             !.pc = IF k = Len(SCHEMA[Professors]) THEN "done" ELSE "write",
                             !.ret = (k = Len(SCHEMA[Professors]))])

\* delete_row_by_id from ws.delete_rows on; it returns True
RemoveRow(s) ==
  /\ sess[s].pc = "remove"
  /\ Step(s, delete_rows(sheets[Professors], sess[s].row_number),
          [sess[s] EXCEPT !.pc = "done", !.ret = TRUE])

\* the backend refuses the next update_acell: the exception ends the script
\* run, update_row_by_id returns nothing and undoes nothing
BackendFails(s) ==
  /\ sess[s].pc = "write"
  /\ Step(s, sheets[Professors], [sess[s] EXCEPT !.pc = "failed"])

NextRace ==
  \E s \in Sessions :
    \/ StartAdd(s)
    \/ AppendRow(s)
    \/ StartUpdate(s)
    \/ StartDelete(s)
    \/ Locate(s)
    \/ WriteCell(s)
    \/ RemoveRow(s)

\* any interleaving of the sessions' backend calls, the backend never failing
SpecRace == InitRace /\ [][NextRace]_vars

NextPartial ==
  \/ StartUpdate("A")
  \/ Locate("A")
  \/ WriteCell("A")
  \/ BackendFails("A")

\* one session saving changes, the backend failing at any cell write
SpecPartial == InitRace /\ [][NextPartial]_vars

-----------------------------------------------------------------------------
(* Properties of interleaved and of failing store calls *)

PTbl == sheets[Professors]

\* SpecPartial: the worksheet as the only session found it
POld == before[Professors]

NCols == Len(SCHEMA[Professors])

\* the cell a write of the run's row leaves in column c
Written(run, c) == UserEntered(Get(run.row, SCHEMA[Professors][c]))

\* the sheet rows whose ID is id
RowsWithId(ws, id) == {i \in 1..Len(ws) : HasId(ws[i], id)}

\* two different sessions have both saved changes to the row with the same ID
BothSaved(a, b) ==
  /\ a # b
  /\ sess[a].op = "update" /\ sess[a].pc = "done"
  /\ sess[b].op = "update" /\ sess[b].pc = "done"
  /\ sess[a].id = sess[b].id

\* C12: when two sessions have each read a row and saved it under the same
\* ID, however their cell writes interleaved, both calls have returned True,
\* neither script run has failed, and every cell of the row holds what one
\* of the two wrote there: nothing tells either session of the other (the
\* witness is a run in which the row ends as a mix and both edits are lost).
C12_SilentOverwrite ==
  \A a, b \in Sessions :
    BothSaved(a, b) =>
      /\ sess[a].ret /\ sess[b].ret
      /\ \E i \in 1..Len(PTbl) :
           /\ RowsWithId(PTbl, sess[a].id) = {i}
           /\ \A c \in 1..NCols :
                PTbl[i][c] \in {Written(sess[a], c), Written(sess[b], c)}

\* A renamed professor 1, B gave professor 1 a note, each sending the other
\* column as read; both calls returned True and the row is as it was before:
\* the name is B's stale one, the note A's stale one
C12_Witness ==
  /\ BothSaved("A", "B")
  /\ sess["A"].ret /\ sess["B"].ret
  /\ sess["A"].id = 1
  /\ sess["A"].row["Professor Name"].text = "Dr. Lee" /\ sess["A"].row["Notes"].text = ""
  /\ sess["B"].row["Professor Name"].text = "Dr. Smith" /\ sess["B"].row["Notes"].text = "n"
  /\ PTbl[2] = RaceSheet[2]

\* C13: while update_row_by_id writes, and after the backend failed at its
\* k-th cell write, the row it looked up (the first with the ID) holds the
\* new cells in columns 1..k-1 and the old cells in columns k.., and every
\* other row and the number of rows are as before: nothing is rolled back.
C13_PartialWrite ==
  LET run == sess["A"]
      k == run.writes + 1
      n == run.row_number
  IN run.pc \in {"write", "failed"} =>
       /\ Len(PTbl) = Len(POld)
       /\ n = Min(RowsWithId(POld, run.id))
       /\ \A c \in 1..NCols :
            PTbl[n][c] = IF c < k THEN Written(run, c) ELSE POld[n][c]
       /\ \A i \in 1..Len(PTbl) : i # n => PTbl[i] = POld[i]

\* the backend failed at the third cell write of a row whose name and notes
\* were both retyped: the name is the new one, the notes are the old ones
C13_Witness ==
  LET run == sess["A"]
      n == run.row_number
  IN /\ run.pc = "failed" /\ run.writes = 2
     /\ PTbl[n][2] = Written(run, 2) /\ PTbl[n][2] # POld[n][2]
     /\ PTbl[n][5] = POld[n][5] /\ PTbl[n][5] # Written(run, 5)

\* session s writes a cell or removes a row in this step
Acts(s) == sess[s].pc \in {"write", "remove"} /\ sess'[s] # sess[s]

\* C14 as claimed: whatever the other session appends, updates or deletes
\* meanwhile, every cell write of an update and every removal of a delete
\* hits a row whose ID is, at that moment, the ID the call was given.
C14_ActsOnLookedUpRow ==
  [][\A s \in Sessions :
       Acts(s) => /\ sess[s].row_number <= Len(PTbl)
                  /\ HasId(PTbl[sess[s].row_number], sess[s].id)]_vars

=============================================================================
